---- MODULE Spec2Model ----
(***************************************************************************)
(* Pairing-based expressive set accumulator (ExpressiveAccumulator).       *)
(*                                                                         *)
(* Algebra.  Fr is a prime field; G1, G2 and GT are cyclic groups of that  *)
(* prime order.  A group element is represented by its discrete logarithm  *)
(* with respect to the generator the trusted setup derives (g1, g2, and    *)
(* e(g1,g2) for GT), so that                                               *)
(*     G1::mul(P, k)  multiplies the logarithm by k,                       *)
(*     pairing(P, Q)  multiplies the two logarithms,                       *)
(*     GT product     adds logarithms,  GT power multiplies by the scalar. *)
(* The field order is scaled down from the 255-bit BLS12-381 scalar field  *)
(* to a small prime; committed elements are C++ ints, whose lift into Fr   *)
(* is injective, so the element universe stays below the modulus.          *)
(***************************************************************************)
EXTENDS Integers, Sequences, FiniteSets, TLC

FrModulus == 7

MaxElem == 2

MaxDeg == 2

Fr == 0..(FrModulus - 1)

Elements == 0..MaxElem

Accs == {1, 2}
\* the int indices a caller passes to getG2_s_pow
Indices == (0 - 1)..(MaxDeg + 3)

GroupType == {"G1_TYPE", "G2_TYPE"}

(***************************************************************************)
(* Scalar field Fr                                                         *)
(***************************************************************************)
FrOfInt(i) == i % FrModulus

FrAdd(a, b) == (a + b) % FrModulus

FrSub(a, b) == (a - b + FrModulus) % FrModulus

FrMul(a, b) == (a * b) % FrModulus

FrNeg(a) == (FrModulus - a) % FrModulus

RECURSIVE FrPow(_, _)
FrPow(a, n) == IF n = 0 THEN 1 ELSE FrMul(a, FrPow(a, n - 1))

FrInv(a) == FrPow(a, FrModulus - 2)

(***************************************************************************)
(* Groups G1, G2, GT and the pairing                                       *)
(***************************************************************************)
G1Zero == 0

G2Zero == 0

G1Mul(P, k) == FrMul(P, k)

G2Mul(Q, k) == FrMul(Q, k)

pairing(P, Q) == FrMul(P, Q)

GTMul(a, b) == FrAdd(a, b)

GTPow(a, k) == FrMul(a, k)

(***************************************************************************)
(* ExpressiveTrustedSetup                                                  *)
(***************************************************************************)
\* mutant: the loop stops at max_degree, one power short
generatePowers_OneShort(s, d) ==
    [ secret_s     |-> s,
      max_degree   |-> d,
      g1_generator |-> 1,
      g2_generator |-> 1,
      g1_s_powers  |-> [i \in 1..(d + 1) |-> G1Mul(1, FrPow(s, i - 1))],
      g2_s_powers  |-> [i \in 1..(d + 1) |-> G2Mul(1, FrPow(s, i - 1))] ]

generatePowers(s, d) ==
    [ secret_s     |-> s,
      max_degree   |-> d,
      g1_generator |-> 1,
      g2_generator |-> 1,
      g1_s_powers  |-> [i \in 1..(d + 2) |-> G1Mul(1, FrPow(s, i - 1))],
      g2_s_powers  |-> [i \in 1..(d + 2) |-> G2Mul(1, FrPow(s, i - 1))] ]

\* mutant: operator[] instead of at(): no range check, some value comes back
getG2_s_pow_Unchecked(setup, i) ==
    IF i >= 0 /\ i < Len(setup.g2_s_powers)
    THEN [thrown |-> FALSE, value |-> setup.g2_s_powers[i + 1]]
    ELSE [thrown |-> FALSE, value |-> G2Zero]

\* g2_s_powers.at(i): the int index converts to size_t, so a negative index
\* is out of range too; out of range throws std::out_of_range
getG2_s_pow(setup, i) ==
    IF i >= 0 /\ i < Len(setup.g2_s_powers)
    THEN [thrown |-> FALSE, value |-> setup.g2_s_powers[i + 1]]
    ELSE [thrown |-> TRUE, value |-> G2Zero]

(***************************************************************************)
(* CharacteristicPolynomial                                                *)
(***************************************************************************)
SetMin(S) == CHOOSE m \in S : \A y \in S : m <= y

RECURSIVE evaluate(_, _)
evaluate(elems, a) ==
    IF elems = {} THEN 1
    ELSE LET r == SetMin(elems)
         IN  FrMul(FrSub(a, FrOfInt(r)), evaluate(elems \ {r}, a))

intersection(set1, set2) == set1 \cap set2

(***************************************************************************)
(* Proof objects                                                           *)
(***************************************************************************)
MembershipProof(w, m) == [witness_g2 |-> w, is_member |-> m]

UpdateProof(op, old, new, x, mp, v) ==
    [ op_type |-> op, old_digest |-> old, new_digest |-> new,
      element |-> x, membership_proof |-> mp, is_valid |-> v ]

(***************************************************************************)
(* ExpressiveAccumulator                                                   *)
(***************************************************************************)
NewAccumulator(setup, type) ==
    [ group_type |-> type,
      elements   |-> {},
      polynomial |-> {},
      digest_g1  |-> IF type = "G1_TYPE" THEN setup.g1_generator ELSE G1Zero,
      digest_g2  |-> IF type = "G2_TYPE" THEN setup.g2_generator ELSE G2Zero ]

getDigest(a) == a.digest_g1

getDigestG2(a) == a.digest_g2

\* mutant: the digest is updated from its previous value instead of being
\* recomputed from the generator
updateAccumulatorValue_FromOldDigest(a, setup) ==
    LET poly_eval == evaluate(a.polynomial, setup.secret_s)
    IN  IF a.group_type = "G1_TYPE"
        THEN [a EXCEPT !.digest_g1 = G1Mul(a.digest_g1, poly_eval)]
        ELSE [a EXCEPT !.digest_g2 = G2Mul(a.digest_g2, poly_eval)]

\* mutant: writes the G1 digest whatever the group type
updateAccumulatorValue_AlwaysG1(a, setup) ==
    [a EXCEPT !.digest_g1 =
        G1Mul(setup.g1_generator, evaluate(a.polynomial, setup.secret_s))]

updateAccumulatorValue(a, setup) ==
    LET poly_eval == evaluate(a.polynomial, setup.secret_s)
    IN  IF a.group_type = "G1_TYPE"
        THEN [a EXCEPT !.digest_g1 = G1Mul(setup.g1_generator, poly_eval)]
        ELSE [a EXCEPT !.digest_g2 = G2Mul(setup.g2_generator, poly_eval)]

\* mutant: the witness polynomial keeps the queried element
generateMembershipProof_NoErase(a, element, setup, junk) ==
    IF element \notin a.elements
    THEN MembershipProof(junk, FALSE)
    ELSE MembershipProof(G2Mul(setup.g2_generator,
                               evaluate(a.elements, setup.secret_s)), TRUE)

generateMembershipProof(a, element, setup, junk) ==
    IF element \notin a.elements
    THEN MembershipProof(junk, FALSE)
    ELSE LET witness_elements == a.elements \ {element}
             witness_s == evaluate(witness_elements, setup.secret_s)
         IN  MembershipProof(G2Mul(setup.g2_generator, witness_s), TRUE)

\* mutant: pairs the witness with g1^s instead of g1^{s-x}
verifyMembershipProof_NoElement(acc_digest, element, proof, setup) ==
    IF ~proof.is_member THEN FALSE
    ELSE pairing(acc_digest, setup.g2_generator)
           = pairing(G1Mul(setup.g1_generator, setup.secret_s),
                     proof.witness_g2)

\* mutant: the is_member flag is not looked at
verifyMembershipProof_NoFlag(acc_digest, element, proof, setup) ==
    pairing(acc_digest, setup.g2_generator)
      = pairing(G1Mul(setup.g1_generator,
                      FrSub(setup.secret_s, FrOfInt(element))),
                proof.witness_g2)

verifyMembershipProof(acc_digest, element, proof, setup) ==
    IF ~proof.is_member THEN FALSE
    ELSE LET lhs   == pairing(acc_digest, setup.g2_generator)
             sx_g1 == G1Mul(setup.g1_generator,
                            FrSub(setup.secret_s, FrOfInt(element)))
             rhs   == pairing(sx_g1, proof.witness_g2)
         IN  lhs = rhs

\* mutant: the element is inserted and the digest is not recomputed
addElement_NoRefresh(a, element, setup, junk) ==
    LET old == getDigest(a)
        a2  == [a EXCEPT !.elements   = @ \cup {element},
                         !.polynomial = @ \cup {element}]
    IN  << a2, UpdateProof("ADD", old, getDigest(a2), element,
                           MembershipProof(junk, FALSE), TRUE) >>

\* mutant: multiplies the digest by g^{s-x} without the membership test
addElement_NoCheck(a, element, setup, junk) ==
    LET old == a.digest_g1
        k   == FrSub(setup.secret_s, FrOfInt(element))
        a2  == [a EXCEPT !.elements   = @ \cup {element},
                         !.polynomial = @ \cup {element},
                         !.digest_g1  = IF a.group_type = "G1_TYPE"
                                        THEN G1Mul(@, k) ELSE @,
                         !.digest_g2  = IF a.group_type = "G2_TYPE"
                                        THEN G2Mul(@, k) ELSE @]
    IN  << a2, UpdateProof("ADD", old, a2.digest_g1, element,
                           MembershipProof(junk, FALSE), TRUE) >>

\* addElement returns the pair <<accumulator after the call, proof>>
addElement(a, element, setup, junk) ==
    LET old == getDigest(a)
        a2  == IF element \notin a.elements
               THEN updateAccumulatorValue(
                        [a EXCEPT !.elements   = @ \cup {element},
                                  !.polynomial = @ \cup {element}], setup)
               ELSE a
    IN  << a2, UpdateProof("ADD", old, getDigest(a2), element,
                           MembershipProof(junk, FALSE), TRUE) >>

\* mutant: the element is removed from the polynomial's roots and stays in
\* the accumulator's own set
deleteElement_PolynomialOnly(a, element, setup, junk) ==
    LET old == getDigest(a)
    IN  IF element \notin a.elements
        THEN << a, UpdateProof("DELETE", old, old, element,
                               MembershipProof(junk, FALSE), FALSE) >>
        ELSE LET mp == generateMembershipProof(a, element, setup, junk)
                 a2 == updateAccumulatorValue(
                           [a EXCEPT !.polynomial = @ \ {element}], setup)
             IN  << a2, UpdateProof("DELETE", old, getDigest(a2), element,
                                    mp, TRUE) >>

\* mutant: new_digest is captured before the digest is recomputed
deleteElement_StaleDigest(a, element, setup, junk) ==
    LET old == a.digest_g1
    IN  IF element \notin a.elements
        THEN << a, UpdateProof("DELETE", old, old, element,
                               MembershipProof(junk, FALSE), FALSE) >>
        ELSE << [a EXCEPT !.polynomial = @ \ {element},
                          !.elements   = @ \ {element},
                          !.digest_g1  = IF a.group_type = "G1_TYPE"
                              THEN evaluate(a.elements \ {element},
                                            setup.secret_s) ELSE @,
                          !.digest_g2  = IF a.group_type = "G2_TYPE"
                              THEN evaluate(a.elements \ {element},
                                            setup.secret_s) ELSE @],
                UpdateProof("DELETE", old, old, element,
                    MembershipProof(evaluate(a.elements \ {element},
                                             setup.secret_s), TRUE), TRUE) >>

\* mutant: the delete of an absent element erases and reports success
deleteElement_NoEarlyReturn(a, element, setup, junk) ==
    LET old == a.digest_g1
        mp  == IF element \in a.elements
               THEN MembershipProof(evaluate(a.elements \ {element},
                                             setup.secret_s), TRUE)
               ELSE MembershipProof(junk, FALSE)
        a2  == [a EXCEPT !.polynomial = @ \ {element},
                         !.elements   = @ \ {element},
                         !.digest_g1  = IF a.group_type = "G1_TYPE"
                             THEN evaluate(a.elements \ {element},
                                           setup.secret_s) ELSE @,
                         !.digest_g2  = IF a.group_type = "G2_TYPE"
                             THEN evaluate(a.elements \ {element},
                                           setup.secret_s) ELSE @]
    IN  << a2, UpdateProof("DELETE", old, a2.digest_g1, element, mp, TRUE) >>

deleteElement(a, element, setup, junk) ==
    LET old == getDigest(a)
    IN  IF element \notin a.elements
        THEN << a, UpdateProof("DELETE", old, getDigest(a), element,
                               MembershipProof(junk, FALSE), FALSE) >>
        ELSE LET mp == generateMembershipProof(a, element, setup, junk)
             IN  IF ~mp.is_member
                 THEN << a, UpdateProof("DELETE", old, getDigest(a), element,
                                        mp, FALSE) >>
                 ELSE LET a2 == updateAccumulatorValue(
                                    [a EXCEPT !.polynomial = @ \ {element},
                                              !.elements   = @ \ {element}],
                                    setup)
                      IN  << a2, UpdateProof("DELETE", old, getDigest(a2),
                                             element, mp, TRUE) >>

\* mutant: the is_valid flag is not looked at
verifyUpdateProof_NoFlag(proof, setup) ==
    LET sx == FrSub(setup.g2_s_powers[2], FrOfInt(proof.element))
    IN  IF proof.op_type = "ADD"
        THEN proof.new_digest = FrMul(proof.old_digest, sx)
        ELSE /\ verifyMembershipProof(proof.old_digest, proof.element,
                                      proof.membership_proof, setup)
             /\ proof.old_digest = FrMul(proof.new_digest, sx)

\* mutant: a DELETE proof is accepted on its two digests alone
verifyUpdateProof_NoRightToDelete(proof, setup) ==
    /\ proof.is_valid
    /\ LET sx == FrSub(setup.g2_s_powers[2], FrOfInt(proof.element))
       IN  IF proof.op_type = "ADD"
           THEN proof.new_digest = FrMul(proof.old_digest, sx)
           ELSE proof.old_digest = FrMul(proof.new_digest, sx)

verifyUpdateProof(proof, setup) ==
    IF ~proof.is_valid THEN FALSE
    ELSE LET element_fr == FrOfInt(proof.element)
             g2_gen     == setup.g2_generator
             g2_s       == setup.g2_s_powers[2]
         IN  IF proof.op_type = "ADD"
             THEN LET lhs  == pairing(proof.new_digest, g2_gen)
                      rhs1 == pairing(proof.old_digest, g2_s)
                      rhs2 == GTPow(pairing(proof.old_digest, g2_gen),
                                    FrNeg(element_fr))
                  IN  lhs = GTMul(rhs1, rhs2)
             ELSE IF proof.op_type = "DELETE"
             THEN IF ~verifyMembershipProof(proof.old_digest, proof.element,
                                            proof.membership_proof, setup)
                  THEN FALSE
                  ELSE LET lhs  == pairing(proof.old_digest, g2_gen)
                           rhs1 == pairing(proof.new_digest, g2_s)
                           rhs2 == GTPow(pairing(proof.new_digest, g2_gen),
                                         FrNeg(element_fr))
                       IN  lhs = GTMul(rhs1, rhs2)
             ELSE FALSE

(***************************************************************************)
(* PolynomialUtils: dense polynomials over Fr (FLINT fmpz_mod_poly).       *)
(* A polynomial is its coefficient sequence, lowest degree first, without  *)
(* trailing zeros; the zero polynomial is the empty sequence.              *)
(***************************************************************************)
RECURSIVE PolyNorm(_)
PolyNorm(p) ==
    IF p = << >> THEN << >>
    ELSE IF p[Len(p)] = 0 THEN PolyNorm(SubSeq(p, 1, Len(p) - 1))
    ELSE p

PolyCoeff(p, i) == IF i >= 0 /\ i < Len(p) THEN p[i + 1] ELSE 0

PolyMax(m, n) == IF m >= n THEN m ELSE n

\* the coefficient vector c_0 .. c_(n-1) as a sequence
PolyOfCoeffs(f, n) == SubSeq(f, 1, n)

PolyAdd(p, q) ==
    PolyNorm(PolyOfCoeffs([k \in 1..PolyMax(Len(p), Len(q)) |->
                 FrAdd(PolyCoeff(p, k - 1), PolyCoeff(q, k - 1))],
             PolyMax(Len(p), Len(q))))

PolySub(p, q) ==
    PolyNorm(PolyOfCoeffs([k \in 1..PolyMax(Len(p), Len(q)) |->
                 FrSub(PolyCoeff(p, k - 1), PolyCoeff(q, k - 1))],
             PolyMax(Len(p), Len(q))))

PolyScalarMul(p, c) ==
    PolyNorm(PolyOfCoeffs([k \in 1..Len(p) |-> FrMul(p[k], c)], Len(p)))

\* coefficient k of p*q: sum over i = 0..k of p_i * q_(k-i)
RECURSIVE PolyConv(_, _, _, _)
PolyConv(p, q, k, i) ==
    IF i > k THEN 0
    ELSE FrAdd(FrMul(PolyCoeff(p, i), PolyCoeff(q, k - i)),
               PolyConv(p, q, k, i + 1))

PolyMul(p, q) ==
    IF p = << >> \/ q = << >> THEN << >>
    ELSE PolyNorm(PolyOfCoeffs(
             [k \in 1..(Len(p) + Len(q) - 1) |-> PolyConv(p, q, k - 1, 0)],
             Len(p) + Len(q) - 1))

\* c * z^n
PolyMonomial(c, n) ==
    PolyNorm(PolyOfCoeffs([k \in 1..(n + 1) |-> IF k = n + 1 THEN c ELSE 0],
                          n + 1))

\* quotient and remainder of a by a non-zero b: <<quot, rem>>
RECURSIVE PolyDivRem(_, _)
PolyDivRem(a, b) ==
    IF Len(a) < Len(b) THEN << << >>, a >>
    ELSE LET c    == FrMul(a[Len(a)], FrInv(b[Len(b)]))
             m    == PolyMonomial(c, Len(a) - Len(b))
             rest == PolyDivRem(PolySub(a, PolyMul(m, b)), b)
         IN  << PolyAdd(rest[1], m), rest[2] >>

\* extended Euclid on remainders r0, r1 with cofactors (s0,t0), (s1,t1)
RECURSIVE PolyEuclid(_, _, _, _, _, _)
PolyEuclid(r0, r1, s0, s1, t0, t1) ==
    IF r1 = << >> THEN << r0, s0, t0 >>
    ELSE LET qr == PolyDivRem(r0, r1)
         IN  PolyEuclid(r1, qr[2], s1, PolySub(s0, PolyMul(qr[1], s1)),
                        t1, PolySub(t0, PolyMul(qr[1], t1)))

\* mutant: only the gcd is made monic, the cofactors are left unscaled
PolyXgcd_CofactorsUnscaled(A, B) ==
    IF Len(A) = 0 \/ Len(B) = 0 THEN << PolyNorm(A \o B), << >>, << >> >>
    ELSE LET e   == PolyEuclid(A, B, << 1 >>, << >>, << >>, << 1 >>)
             inv == FrInv(e[1][Len(e[1])])
         IN  << PolyScalarMul(e[1], inv), e[2], e[3] >>

\* fmpz_mod_poly_xgcd: <<G, S, T>> with S*A + T*B = G, G monic
RECURSIVE PolyXgcd(_, _)
PolyXgcd(A, B) ==
    IF Len(A) < Len(B)
    THEN LET r == PolyXgcd(B, A) IN << r[1], r[3], r[2] >>
    ELSE IF Len(A) = 0 THEN << << >>, << >>, << >> >>
    ELSE IF Len(B) = 0
    THEN LET inv == FrInv(A[Len(A)])
         IN  << PolyScalarMul(A, inv), << inv >>, << >> >>
    ELSE IF Len(B) = 1
    THEN << << 1 >>, << >>, << FrInv(B[1]) >> >>
    ELSE LET e   == PolyEuclid(A, B, << 1 >>, << >>, << >>, << 1 >>)
             inv == FrInv(e[1][Len(e[1])])
         IN  << PolyScalarMul(e[1], inv), PolyScalarMul(e[2], inv),
                PolyScalarMul(e[3], inv) >>

PolyIsOne(p) == p = << 1 >>

\* mutant: the product starts from the zero polynomial instead of 1
RECURSIVE fromRoots_StartsAtZero(_)
fromRoots_StartsAtZero(roots) ==
    IF roots = {} THEN << >>
    ELSE LET root == SetMin(roots)
             temp_term == PolySub(<< 0, 1 >>, PolyNorm(<< FrOfInt(root) >>))
         IN  PolyMul(fromRoots_StartsAtZero(roots \ {root}), temp_term)

RECURSIVE fromRoots(_)
fromRoots(roots) ==
    IF roots = {} THEN << 1 >>
    ELSE LET root == SetMin(roots)
             temp_term == PolySub(<< 0, 1 >>, PolyNorm(<< FrOfInt(root) >>))
         IN  PolyMul(fromRoots(roots \ {root}), temp_term)

\* PolynomialUtils::evaluate (Horner)
RECURSIVE PolyHorner(_, _, _)
PolyHorner(p, s, k) ==
    IF k > Len(p) THEN 0
    ELSE FrAdd(p[k], FrMul(s, PolyHorner(p, s, k + 1)))

PolyEvaluate(p, s) == PolyHorner(p, s, 1)

(***************************************************************************)
(* Intersection proofs                                                     *)
(***************************************************************************)
IntersectionProof(dI, wQA, wQB, wa, wb, v) ==
    [ intersection_digest_g1 |-> dI, witness_QA_g2 |-> wQA,
      witness_QB_g2 |-> wQB, witness_a_g1 |-> wa, witness_b_g1 |-> wb,
      is_valid |-> v ]

\* mutant: the two quotient witnesses are stored in each other's field
generateIntersectionProof_SwappedQuotients(acc1, acc2, setup, junk) ==
    LET secret_s         == setup.secret_s
        intersection_set == intersection(acc1.elements, acc2.elements)
        poly_QA == fromRoots(acc1.elements \ intersection_set)
        poly_QB == fromRoots(acc2.elements \ intersection_set)
        dI      == G1Mul(setup.g1_generator,
                         PolyEvaluate(fromRoots(intersection_set), secret_s))
        wQA     == G2Mul(setup.g2_generator, PolyEvaluate(poly_QB, secret_s))
        wQB     == G2Mul(setup.g2_generator, PolyEvaluate(poly_QA, secret_s))
        x       == PolyXgcd(poly_QA, poly_QB)
    IN  IF ~PolyIsOne(x[1])
        THEN IntersectionProof(dI, wQA, wQB, junk, junk, FALSE)
        ELSE IntersectionProof(dI, wQA, wQB,
                 G1Mul(setup.g1_generator, PolyEvaluate(x[2], secret_s)),
                 G1Mul(setup.g1_generator, PolyEvaluate(x[3], secret_s)),
                 TRUE)

generateIntersectionProof(acc1, acc2, setup, junk) ==
    LET secret_s         == setup.secret_s
        intersection_set == intersection(acc1.elements, acc2.elements)
        diff_A_set       == acc1.elements \ intersection_set
        diff_B_set       == acc2.elements \ intersection_set
        poly_I  == fromRoots(intersection_set)
        poly_QA == fromRoots(diff_A_set)
        poly_QB == fromRoots(diff_B_set)
        I_s     == PolyEvaluate(poly_I, secret_s)
        QA_s    == PolyEvaluate(poly_QA, secret_s)
        QB_s    == PolyEvaluate(poly_QB, secret_s)
        dI      == G1Mul(setup.g1_generator, I_s)
        wQA     == G2Mul(setup.g2_generator, QA_s)
        wQB     == G2Mul(setup.g2_generator, QB_s)
        x       == PolyXgcd(poly_QA, poly_QB)
    IN  IF ~PolyIsOne(x[1])
        THEN IntersectionProof(dI, wQA, wQB, junk, junk, FALSE)
        ELSE IntersectionProof(dI, wQA, wQB,
                 G1Mul(setup.g1_generator, PolyEvaluate(x[2], secret_s)),
                 G1Mul(setup.g1_generator, PolyEvaluate(x[3], secret_s)),
                 TRUE)

\* mutant: the check of the Bezout relation of the cofactors is missing
verifyIntersectionProof_NoBezout(digest_A, digest_B, proof, setup) ==
    /\ proof.is_valid
    /\ pairing(digest_A, setup.g2_generator)
         = pairing(proof.intersection_digest_g1, proof.witness_QA_g2)
    /\ pairing(digest_B, setup.g2_generator)
         = pairing(proof.intersection_digest_g1, proof.witness_QB_g2)

\* mutant: the subset check against digest_B is missing
verifyIntersectionProof_NoSubsetB(digest_A, digest_B, proof, setup) ==
    /\ proof.is_valid
    /\ pairing(digest_A, setup.g2_generator)
         = pairing(proof.intersection_digest_g1, proof.witness_QA_g2)
    /\ GTMul(pairing(proof.witness_a_g1, proof.witness_QA_g2),
             pairing(proof.witness_b_g1, proof.witness_QB_g2))
         = pairing(setup.g1_generator, setup.g2_generator)

verifyIntersectionProof(digest_A, digest_B, proof, setup) ==
    IF ~proof.is_valid THEN FALSE
    ELSE LET g1_gen == setup.g1_generator
             g2_gen == setup.g2_generator
         IN  IF pairing(digest_A, g2_gen)
                  # pairing(proof.intersection_digest_g1, proof.witness_QA_g2)
             THEN FALSE
             ELSE IF pairing(digest_B, g2_gen)
                  # pairing(proof.intersection_digest_g1, proof.witness_QB_g2)
             THEN FALSE
             ELSE IF GTMul(pairing(proof.witness_a_g1, proof.witness_QA_g2),
                           pairing(proof.witness_b_g1, proof.witness_QB_g2))
                     # pairing(g1_gen, g2_gen)
             THEN FALSE
             ELSE TRUE

(***************************************************************************)
(* Polynomial (polynomial_commitment.cpp): coefficients over BigInt, lowest *)
(* degree first, with the modulus the polynomial was built for.  BigInt is  *)
(* OpenSSL's signed BIGNUM, modelled by the integers.                       *)
(***************************************************************************)
\* the prime moduli polynomials are built for
PolyModuli == {3, 5}

\* BN_mod: the remainder takes the sign of the dividend
BN_mod(a, m) == IF a >= 0 THEN a % m ELSE 0 - ((0 - a) % m)

\* BN_mod_inverse; the result object stays zero when there is no inverse
mod_inverse(a, m) ==
    IF \E x \in 0..(m - 1) : (a * x) % m = 1
    THEN CHOOSE x \in 0..(m - 1) : (a * x) % m = 1
    ELSE 0

\* Polynomial(coeffs, mod): trailing zero coefficients are removed down to
\* one coefficient
RECURSIVE StripLeadingZeros(_)
StripLeadingZeros(coeffs) ==
    IF Len(coeffs) > 1 /\ coeffs[Len(coeffs)] = 0
    THEN StripLeadingZeros(SubSeq(coeffs, 1, Len(coeffs) - 1))
    ELSE coeffs

Polynomial(coeffs, mod) ==
    [ coefficients |-> StripLeadingZeros(coeffs), modulus |-> mod ]

\* Polynomial(mod): the zero polynomial
ZeroPolynomial(mod) == [ coefficients |-> << 0 >>, modulus |-> mod ]

\* size_t degree(): 0 for at most one coefficient
Polynomial_degree(p) ==
    IF Len(p.coefficients) <= 1 THEN 0 ELSE Len(p.coefficients) - 1

Polynomial_coeff(p, i) ==
    IF i < Len(p.coefficients) THEN p.coefficients[i + 1] ELSE 0

\* operator+: "invalid_argument" stands for the exception thrown
Polynomial_plus(p, other) ==
    IF p.modulus # other.modulus THEN "invalid_argument"
    ELSE LET max_size == PolyMax(Len(p.coefficients), Len(other.coefficients))
         IN  Polynomial(
                 PolyOfCoeffs([i \in 1..max_size |->
                     BN_mod(Polynomial_coeff(p, i - 1)
                              + Polynomial_coeff(other, i - 1),
                            p.modulus)], max_size),
                 p.modulus)

\* operator-: "invalid_argument" stands for the exception thrown
Polynomial_minus(p, other) ==
    IF p.modulus # other.modulus THEN "invalid_argument"
    ELSE LET max_size == PolyMax(Len(p.coefficients), Len(other.coefficients))
         IN  Polynomial(
                 PolyOfCoeffs([i \in 1..max_size |->
                     BN_mod(Polynomial_coeff(p, i - 1)
                              - Polynomial_coeff(other, i - 1) + p.modulus,
                            p.modulus)], max_size),
                 p.modulus)

\* result_coeffs[k] after the double loop of operator*(const Polynomial&):
\* the products coefficients[i] * other.coefficients[k - i] are reduced and
\* added in the order of i
RECURSIVE Polynomial_times_coeff(_, _, _, _)
Polynomial_times_coeff(p, other, k, i) ==
    IF i < 0 THEN 0
    ELSE LET before == Polynomial_times_coeff(p, other, k, i - 1)
         IN  IF i < Len(p.coefficients) /\ k - i < Len(other.coefficients)
             THEN BN_mod(before
                           + BN_mod(p.coefficients[i + 1]
                                      * other.coefficients[k - i + 1],
                                    p.modulus),
                         p.modulus)
             ELSE before

Polynomial_times(p, other) ==
    IF p.modulus # other.modulus THEN "invalid_argument"
    ELSE LET result_size == Len(p.coefficients) + Len(other.coefficients) - 1
         IN  Polynomial(
                 PolyOfCoeffs([k \in 1..result_size |->
                     Polynomial_times_coeff(p, other, k - 1, k - 1)],
                     result_size),
                 p.modulus)

\* operator*(const BigInt& scalar)
Polynomial_scale(p, scalar) ==
    Polynomial(PolyOfCoeffs([i \in 1..Len(p.coefficients) |->
                   BN_mod(p.coefficients[i] * scalar, p.modulus)],
                   Len(p.coefficients)),
               p.modulus)

\* evaluate: result and x_power after the first n coefficients
RECURSIVE Polynomial_evaluate_loop(_, _, _)
Polynomial_evaluate_loop(p, x, n) ==
    IF n = 0 THEN << 0, 1 >>
    ELSE LET prev == Polynomial_evaluate_loop(p, x, n - 1)
             term == BN_mod(p.coefficients[n] * prev[2], p.modulus)
         IN  << BN_mod(prev[1] + term, p.modulus),
                BN_mod(prev[2] * x, p.modulus) >>

Polynomial_evaluate(p, x) ==
    Polynomial_evaluate_loop(p, x, Len(p.coefficients))[1]

\* from_roots: the roots come in the order of the vector
RECURSIVE Polynomial_from_roots_loop(_, _, _)
Polynomial_from_roots_loop(roots, modulus, n) ==
    IF n = 0 THEN Polynomial(<< 1 >>, modulus)
    ELSE Polynomial_times(
             Polynomial_from_roots_loop(roots, modulus, n - 1),
             Polynomial(<< modulus - roots[n], 1 >>, modulus))

Polynomial_from_roots(roots, modulus) ==
    IF roots = << >> THEN ZeroPolynomial(modulus)
    ELSE Polynomial_from_roots_loop(roots, modulus, Len(roots))

\* term.coefficients.insert(begin, 0), n times
Polynomial_shift(coeffs, n) == PolyOfCoeffs([i \in 1..n |-> 0], n) \o coeffs

\* the reversed quotient_coeffs
Reverse(s) == PolyOfCoeffs([i \in 1..Len(s) |-> s[Len(s) + 1 - i]], Len(s))

(***************************************************************************)
(* State machine: one trusted setup shared by two accumulators.            *)
(*   setup  the trusted setup after generatePowers                         *)
(*   acc    the accumulators                                               *)
(*   last   the most recent call and what it returned                      *)
(*   chain  per accumulator, the new_digest of the last UpdateProof it     *)
(*          returned (the digest at construction while it returned none)   *)
(*   poly   the call in progress on the Polynomial class, or its outcome    *)
(***************************************************************************)
VARIABLES setup, acc, last, chain, poly

vars == << setup, acc, last, chain, poly >>

NoMembershipProof == MembershipProof(G2Zero, FALSE)

NoUpdateProof == UpdateProof("ADD", G1Zero, G1Zero, 0, NoMembershipProof, FALSE)

NoIntersectionProof ==
    IntersectionProof(G1Zero, G2Zero, G2Zero, G1Zero, G1Zero, FALSE)

\* no call on the Polynomial class so far
NoCall ==
    [ pc |-> "none", self |-> ZeroPolynomial(3), divisor |-> ZeroPolynomial(3),
      dividend |-> ZeroPolynomial(3), quotient_coeffs |-> << >>,
      roots |-> << >>, result |-> << >> ]

Idle ==
    [ kind |-> "idle", acc |-> 1, other |-> 1, element |-> 0, tamper |-> {},
      mproof |-> NoMembershipProof, uproof |-> NoUpdateProof,
      iproof |-> NoIntersectionProof, g2_pow |-> G2Zero,
      digest_A |-> G1Zero, digest_B |-> G1Zero, result |-> FALSE ]

Init ==
    /\ \E s \in Fr : setup = generatePowers(s, MaxDeg)
    /\ \E type \in [Accs -> GroupType] :
           acc = [a \in Accs |-> NewAccumulator(setup, type[a])]
    /\ last = Idle
    /\ chain = [a \in Accs |-> getDigest(acc[a])]
    /\ poly = NoCall

AddElement(a, x, junk) ==
    LET r == addElement(acc[a], x, setup, junk)
    IN  /\ acc' = [acc EXCEPT ![a] = r[1]]
        /\ last' = [Idle EXCEPT !.kind = "add", !.acc = a, !.element = x,
                                !.uproof = r[2], !.result = r[2].is_valid]
        /\ chain' = [chain EXCEPT ![a] = r[2].new_digest]
        /\ UNCHANGED << setup, poly >>

DeleteElement(a, x, junk) ==
    LET r == deleteElement(acc[a], x, setup, junk)
    IN  /\ acc' = [acc EXCEPT ![a] = r[1]]
        /\ last' = [Idle EXCEPT !.kind = "delete", !.acc = a, !.element = x,
                                !.uproof = r[2], !.result = r[2].is_valid]
        /\ chain' = [chain EXCEPT ![a] = r[2].new_digest]
        /\ UNCHANGED << setup, poly >>

\* the caller hands the proof it just received to the verifier
VerifyUpdateProof ==
    /\ last.kind \in {"add", "delete"}
    /\ last' = [last EXCEPT !.kind = "verify_update",
                            !.result = verifyUpdateProof(last.uproof, setup)]
    /\ UNCHANGED << setup, acc, chain, poly >>

\* mutant: the element is erased from the accumulator's own set instead of
\* from the copy witness_elements
GenerateMembershipProof_ErasesInPlace(a, x, junk) ==
    /\ last' = [Idle EXCEPT !.kind = "gen_member", !.acc = a, !.element = x,
                   !.mproof = generateMembershipProof(acc[a], x, setup, junk)]
    /\ acc' = [acc EXCEPT ![a].elements = @ \ {x}]
    /\ UNCHANGED << setup, chain, poly >>

GenerateMembershipProof(a, x, junk) ==
    /\ last' = [Idle EXCEPT !.kind = "gen_member", !.acc = a, !.element = x,
                   !.mproof = generateMembershipProof(acc[a], x, setup, junk)]
    /\ UNCHANGED << setup, acc, chain, poly >>

\* any caller may present any proof for any element against a's digest
VerifyMembershipProof(a, x, proof) ==
    /\ last' = [Idle EXCEPT !.kind = "verify_member", !.acc = a,
                   !.element = x, !.mproof = proof,
                   !.result = verifyMembershipProof(getDigest(acc[a]), x,
                                                    proof, setup)]
    /\ UNCHANGED << setup, acc, chain, poly >>

\* mutant: the element set is one static member shared by all accumulators
AddElementDiscard_SharedElements(a, x) ==
    /\ acc' = [b \in Accs |-> addElement(acc[b], x, setup, G2Zero)[1]]
    /\ last' = [Idle EXCEPT !.kind = "add_discard", !.acc = a]
    /\ chain' = [b \in Accs |-> getDigest(acc'[b])]
    /\ UNCHANGED << setup, poly >>

\* the caller drops the returned UpdateProof (comprehensive_test.cpp:94-103),
\* and with it the uninitialised witness the proof carries
AddElementDiscard(a, x) ==
    LET r == addElement(acc[a], x, setup, G2Zero)
    IN  /\ acc' = [acc EXCEPT ![a] = r[1]]
        /\ last' = [Idle EXCEPT !.kind = "add_discard", !.acc = a]
        /\ chain' = [chain EXCEPT ![a] = r[2].new_digest]
        /\ UNCHANGED << setup, poly >>

DeleteElementDiscard(a, x) ==
    LET r == deleteElement(acc[a], x, setup, G2Zero)
    IN  /\ acc' = [acc EXCEPT ![a] = r[1]]
        /\ last' = [Idle EXCEPT !.kind = "delete_discard", !.acc = a]
        /\ chain' = [chain EXCEPT ![a] = r[2].new_digest]
        /\ UNCHANGED << setup, poly >>

\* a caller asks the setup for g2^{s^i}
GetG2SPow(i) ==
    LET r == getG2_s_pow(setup, i)
    IN  /\ last' = [Idle EXCEPT !.kind = "get_g2_s_pow", !.element = i,
                                !.g2_pow = r.value, !.result = ~r.thrown]
        /\ UNCHANGED << setup, acc, chain, poly >>

\* witness_a_g1 and witness_b_g1 stay uninitialised when the gcd is not one
GenerateIntersectionProof(a, b) ==
    /\ \E acc1 \in {acc[a]}, acc2 \in {acc[b]}, ts \in {setup} :
         \E p0 \in {generateIntersectionProof(acc1, acc2, ts, G1Zero)} :
           \E junk \in (IF p0.is_valid THEN {G1Zero} ELSE Fr) :
               last' = [Idle EXCEPT !.kind = "gen_intersection", !.acc = a,
                   !.other = b,
                   !.tamper = intersection(acc1.elements, acc2.elements),
                   !.iproof = generateIntersectionProof(acc1, acc2, ts,
                                                        junk)]
    /\ UNCHANGED << setup, acc, chain, poly >>

\* the proof just generated with its D_I replaced by g1^{P_I2(s)}
TamperDI(proof, I2) ==
    [proof EXCEPT !.intersection_digest_g1 =
        G1Mul(setup.g1_generator, evaluate(I2, setup.secret_s))]

\* verify the proof just generated, as is or with its D_I replaced
VerifyIntersectionProof(I2) ==
    /\ last.kind = "gen_intersection"
    /\ LET proof == IF I2 = last.tamper THEN last.iproof
                    ELSE TamperDI(last.iproof, I2)
       IN  last' = [last EXCEPT !.kind = "verify_intersection",
                       !.tamper = I2, !.iproof = proof,
                       !.result = verifyIntersectionProof(
                                      getDigest(acc[last.acc]),
                                      getDigest(acc[last.other]),
                                      proof, setup)]
    /\ UNCHANGED << setup, acc, chain, poly >>

\* the verifier is static: any caller may hand it any two digests and any
\* proof object.  It keeps no state between calls, so a behaviour follows
\* one call.
VerifyAnyIntersectionProof(digest_A, digest_B, proof) ==
    /\ last.kind = "idle"
    /\ last' = [Idle EXCEPT !.kind = "verify_any_intersection",
                   !.digest_A = digest_A, !.digest_B = digest_B,
                   !.iproof = proof,
                   !.result = verifyIntersectionProof(digest_A, digest_B,
                                                      proof, setup)]
    /\ UNCHANGED << setup, acc, chain, poly >>

\* static, too: any caller may hand it any UpdateProof object
VerifyAnyUpdateProof(proof) ==
    /\ last.kind = "idle"
    /\ last' = [Idle EXCEPT !.kind = "verify_any_update",
                   !.element = proof.element, !.uproof = proof,
                   !.result = verifyUpdateProof(proof, setup)]
    /\ UNCHANGED << setup, acc, chain, poly >>

\* static, too: any digest, any element and any MembershipProof object
VerifyAnyMembershipProof(acc_digest, x, proof) ==
    /\ last.kind = "idle"
    /\ last' = [Idle EXCEPT !.kind = "verify_any_member",
                   !.digest_A = acc_digest, !.element = x, !.mproof = proof,
                   !.result = verifyMembershipProof(acc_digest, x, proof,
                                                    setup)]
    /\ UNCHANGED << setup, acc, chain, poly >>

\* the polynomials the public constructor builds from up to MaxDeg + 1
\* reduced coefficients
CoefficientVectors(mod) ==
    UNION { [1..n -> 0..(mod - 1)] : n \in 1..(MaxDeg + 1) }

Polynomials ==
    UNION { { Polynomial(c, mod) : c \in CoefficientVectors(mod) } :
            mod \in PolyModuli }

\* the arguments of a call, once per behaviour
Callable == IF poly.pc = "none" THEN Polynomials ELSE {}

\* the pushed quotient coefficients the model records; the loop itself runs
\* for as long as its condition holds
MaxIterations == MaxDeg + 3

\* p.divide(divisor) up to its loop: the zero divisor throws.  The class
\* keeps no state between calls, so a behaviour follows one call.
DivideCall(p, divisor) ==
    /\ poly.pc = "none"
    /\ p.modulus = divisor.modulus
    /\ IF Polynomial_degree(divisor) = 0 /\ divisor.coefficients[1] = 0
       THEN poly' = [NoCall EXCEPT !.pc = "divide_thrown", !.self = p,
                                   !.divisor = divisor]
       ELSE poly' = [NoCall EXCEPT !.pc = "divide_loop", !.self = p,
                                   !.divisor = divisor, !.dividend = p]
    /\ UNCHANGED << setup, acc, last, chain >>

\* one iteration of while (dividend.degree() >= divisor.degree())
DivideLoop ==
    /\ poly.pc = "divide_loop"
    /\ Polynomial_degree(poly.dividend) >= Polynomial_degree(poly.divisor)
    /\ LET dividend        == poly.dividend
           divisor         == poly.divisor
           leading_coeff   == dividend.coefficients[Len(dividend.coefficients)]
           divisor_leading == divisor.coefficients[Len(divisor.coefficients)]
           coeff == BN_mod(leading_coeff
                             * mod_inverse(divisor_leading, poly.self.modulus),
                           poly.self.modulus)
           scaled == Polynomial_scale(divisor, coeff)
           term == [scaled EXCEPT !.coefficients =
                       Polynomial_shift(@, Polynomial_degree(dividend)
                                             - Polynomial_degree(divisor))]
       IN  poly' = [poly EXCEPT
                       !.quotient_coeffs =
                           IF Len(@) < MaxIterations THEN Append(@, coeff)
                           ELSE @,
                       !.dividend = Polynomial_minus(dividend, term)]
    /\ UNCHANGED << setup, acc, last, chain >>

\* the loop is left: the pair (quotient, remainder) is returned
DivideReturn ==
    /\ poly.pc = "divide_loop"
    /\ Polynomial_degree(poly.dividend) < Polynomial_degree(poly.divisor)
    /\ poly' = [poly EXCEPT !.pc = "divide_returned",
                   !.result = << Polynomial(Reverse(poly.quotient_coeffs),
                                            poly.self.modulus),
                                 poly.dividend >>]
    /\ UNCHANGED << setup, acc, last, chain >>

\* the ascending vector of a set of roots
RECURSIVE SortedVector(_)
SortedVector(S) ==
    IF S = {} THEN << >>
    ELSE << SetMin(S) >> \o SortedVector(S \ {SetMin(S)})

\* Polynomial::from_roots(roots, modulus)
FromRoots(R, modulus) ==
    /\ poly.pc = "none"
    /\ poly' = [NoCall EXCEPT !.pc = "from_roots",
                   !.self = ZeroPolynomial(modulus),
                   !.roots = SortedVector(R),
                   !.result = << Polynomial_from_roots(SortedVector(R),
                                                       modulus) >>]
    /\ UNCHANGED << setup, acc, last, chain >>

\* p + other: the call leaves by the exception when the moduli differ and
\* returns the sum otherwise
PlusCall(p, other) ==
    /\ poly.pc = "none"
    /\ IF p.modulus # other.modulus
       THEN poly' = [NoCall EXCEPT !.pc = "plus_thrown", !.self = p,
                                   !.divisor = other]
       ELSE poly' = [NoCall EXCEPT !.pc = "plus_returned", !.self = p,
                                   !.divisor = other,
                                   !.result = << Polynomial_plus(p, other) >>]
    /\ UNCHANGED << setup, acc, last, chain >>

\* p - other
MinusCall(p, other) ==
    /\ poly.pc = "none"
    /\ IF p.modulus # other.modulus
       THEN poly' = [NoCall EXCEPT !.pc = "minus_thrown", !.self = p,
                                   !.divisor = other]
       ELSE poly' = [NoCall EXCEPT !.pc = "minus_returned", !.self = p,
                                   !.divisor = other,
                                   !.result = << Polynomial_minus(p, other) >>]
    /\ UNCHANGED << setup, acc, last, chain >>

\* p * other
TimesCall(p, other) ==
    /\ poly.pc = "none"
    /\ IF p.modulus # other.modulus
       THEN poly' = [NoCall EXCEPT !.pc = "times_thrown", !.self = p,
                                   !.divisor = other]
       ELSE poly' = [NoCall EXCEPT !.pc = "times_returned", !.self = p,
                                   !.divisor = other,
                                   !.result = << Polynomial_times(p, other) >>]
    /\ UNCHANGED << setup, acc, last, chain >>

\* every IntersectionProof object a caller can build
IntersectionProofs ==
    { IntersectionProof(dI, wQA, wQB, wa, wb, v) :
        dI \in Fr, wQA \in Fr, wQB \in Fr, wa \in Fr, wb \in Fr,
        v \in BOOLEAN }

\* every MembershipProof and every UpdateProof object a caller can build
MembershipProofs == { MembershipProof(w, m) : w \in Fr, m \in BOOLEAN }

UpdateProofs ==
    { UpdateProof(op, old, new, x, mp, v) :
        op \in {"ADD", "DELETE"}, old \in Fr, new \in Fr, x \in Elements,
        mp \in MembershipProofs, v \in BOOLEAN }

\* the proof of a verifier call, once per behaviour
Presentable(proofs) == IF last.kind = "idle" THEN proofs ELSE {}

\* one accumulator with its update proofs
NextUpdate ==
    \/ \E x \in Elements, junk \in Fr : AddElement(1, x, junk)
    \/ \E x \in Elements, junk \in Fr : DeleteElement(1, x, junk)
    \/ VerifyUpdateProof

\* one accumulator with its membership proofs
NextMember ==
    \/ \E x \in Elements, junk \in Fr : AddElement(1, x, junk)
    \/ \E x \in Elements, junk \in Fr : DeleteElement(1, x, junk)
    \/ \E x \in Elements, junk \in Fr : GenerateMembershipProof(1, x, junk)
    \/ \E x \in Elements, w \in Fr, m \in BOOLEAN :
           VerifyMembershipProof(1, x, MembershipProof(w, m))

\* two accumulators with their intersection proofs
NextIntersection ==
    \/ \E a \in Accs, x \in Elements : AddElementDiscard(a, x)
    \/ \E a \in Accs, x \in Elements : DeleteElementDiscard(a, x)
    \/ \E a \in Accs : \E b \in Accs \ {a} : GenerateIntersectionProof(a, b)
    \/ \E I2 \in SUBSET Elements : VerifyIntersectionProof(I2)

Next ==
    \/ \E a \in Accs, x \in Elements, junk \in Fr : AddElement(a, x, junk)
    \/ \E a \in Accs, x \in Elements, junk \in Fr : DeleteElement(a, x, junk)
    \/ VerifyUpdateProof
    \/ \E a \in Accs, x \in Elements, junk \in Fr :
           GenerateMembershipProof(a, x, junk)
    \/ \E a \in Accs, x \in Elements, w \in Fr, m \in BOOLEAN :
           VerifyMembershipProof(a, x, MembershipProof(w, m))
    \/ \E a \in Accs : \E b \in Accs \ {a} : GenerateIntersectionProof(a, b)
    \/ \E I2 \in SUBSET Elements : VerifyIntersectionProof(I2)
    \/ \E a \in Accs, x \in Elements : AddElementDiscard(a, x)
    \/ \E a \in Accs, x \in Elements : DeleteElementDiscard(a, x)
    \/ \E i \in Indices : GetG2SPow(i)
    \/ \E p \in Callable, divisor \in Callable : DivideCall(p, divisor)
    \/ DivideLoop
    \/ DivideReturn
    \/ \E R \in SUBSET Elements, modulus \in PolyModuli : FromRoots(R, modulus)
    \/ \E p \in Callable, other \in Callable : PlusCall(p, other)
    \/ \E p \in Callable, other \in Callable : MinusCall(p, other)
    \/ \E p \in Callable, other \in Callable : TimesCall(p, other)
    \/ \E proof \in Presentable(UpdateProofs) : VerifyAnyUpdateProof(proof)
    \/ \E proof \in Presentable(MembershipProofs) :
           \E acc_digest \in Fr, x \in Elements :
               VerifyAnyMembershipProof(acc_digest, x, proof)
    \/ \E proof \in Presentable(IntersectionProofs) :
           \E digest_A \in Fr, digest_B \in Fr :
               VerifyAnyIntersectionProof(digest_A, digest_B, proof)

\* two accumulators with their intersection proofs, verified as generated
NextHonestIntersection ==
    \/ \E a \in Accs, x \in Elements : AddElementDiscard(a, x)
    \/ \E a \in Accs, x \in Elements : DeleteElementDiscard(a, x)
    \/ \E a \in Accs : \E b \in Accs \ {a} : GenerateIntersectionProof(a, b)
    \/ VerifyIntersectionProof(last.tamper)

\* accumulators sharing one setup, and callers reading its powers
NextShared ==
    \/ \E a \in Accs, x \in Elements : AddElementDiscard(a, x)
    \/ \E a \in Accs, x \in Elements : DeleteElementDiscard(a, x)
    \/ \E i \in Indices : GetG2SPow(i)

\* accumulator 1 with every proof operation; accumulator 2, as constructed,
\* is the other operand of the intersection proofs
NextProofs ==
    \/ \E x \in Elements, junk \in Fr : AddElement(1, x, junk)
    \/ \E x \in Elements, junk \in Fr : DeleteElement(1, x, junk)
    \/ VerifyUpdateProof
    \/ \E x \in Elements, junk \in Fr : GenerateMembershipProof(1, x, junk)
    \/ \E x \in Elements, w \in Fr, m \in BOOLEAN :
           VerifyMembershipProof(1, x, MembershipProof(w, m))
    \/ \E a \in Accs : \E b \in Accs \ {a} : GenerateIntersectionProof(a, b)
    \/ \E I2 \in SUBSET Elements : VerifyIntersectionProof(I2)

\* the Polynomial class on its own
NextPolynomial ==
    \/ \E p \in Callable, divisor \in Callable : DivideCall(p, divisor)
    \/ DivideLoop
    \/ DivideReturn
    \/ \E R \in SUBSET Elements, modulus \in PolyModuli : FromRoots(R, modulus)
    \/ \E p \in Callable, other \in Callable : PlusCall(p, other)
    \/ \E p \in Callable, other \in Callable : MinusCall(p, other)
    \/ \E p \in Callable, other \in Callable : TimesCall(p, other)

\* the static intersection verifier on arbitrary arguments
NextVerifyIntersection ==
    \E proof \in Presentable(IntersectionProofs) :
        \E digest_A \in Fr, digest_B \in Fr :
            VerifyAnyIntersectionProof(digest_A, digest_B, proof)

\* the three static verifiers on proofs of any content; the intersection
\* verifier is handed the digests of the two accumulators
NextVerifiers ==
    \/ \E proof \in Presentable(UpdateProofs) : VerifyAnyUpdateProof(proof)
    \/ \E proof \in Presentable(MembershipProofs) :
           \E acc_digest \in Fr, x \in Elements :
               VerifyAnyMembershipProof(acc_digest, x, proof)
    \/ \E proof \in Presentable(IntersectionProofs) :
           VerifyAnyIntersectionProof(getDigest(acc[1]), getDigest(acc[2]),
                                      proof)

\* one accumulator through its adds and deletes, the proofs kept by the caller
NextAddDelete ==
    \/ \E x \in Elements, junk \in Fr : AddElement(1, x, junk)
    \/ \E x \in Elements, junk \in Fr : DeleteElement(1, x, junk)

\* divide on its own, on the constant and the linear polynomials
NextDivide ==
    \/ \E p \in Callable, divisor \in Callable :
           /\ Len(p.coefficients) <= 2
           /\ Len(divisor.coefficients) <= 2
           /\ DivideCall(p, divisor)
    \/ DivideLoop
    \/ DivideReturn

Spec == Init /\ [][Next]_vars

\* the Polynomial class does not touch the accumulators: one setup and one
\* pair of accumulators stand for all
InitPolynomial ==
    /\ Init
    /\ setup.secret_s = 1
    /\ \A a \in Accs : acc[a].group_type = "G1_TYPE"

SpecPolynomial == InitPolynomial /\ [][NextPolynomial]_vars

SpecProofs == Init /\ [][NextProofs]_vars

SpecShared == Init /\ [][NextShared]_vars

SpecUpdate == Init /\ [][NextUpdate]_vars

SpecMember == Init /\ [][NextMember]_vars

\* generateIntersectionProof is for accumulators in G1
InitG1 == Init /\ \A a \in Accs : acc[a].group_type = "G1_TYPE"

SpecIntersection == InitG1 /\ [][NextIntersection]_vars

SpecHonestIntersection == InitG1 /\ [][NextHonestIntersection]_vars

\* verifyIntersectionProof reads the two generators of the setup and nothing
\* of the accumulators: one setup and one pair of accumulators stand for all
SpecVerifyIntersection == InitPolynomial /\ [][NextVerifyIntersection]_vars

SpecVerifiers == Init /\ [][NextVerifiers]_vars

\* a call that has entered divide keeps running: the loop takes its next
\* iteration while its condition holds and the function returns once it fails
SpecDivideLive ==
    /\ InitPolynomial
    /\ [][NextDivide]_vars
    /\ WF_vars(DivideLoop)
    /\ WF_vars(DivideReturn)

SpecAddDelete == Init /\ [][NextAddDelete]_vars

TypeOK ==
    /\ acc \in [Accs -> [group_type : GroupType, elements : SUBSET Elements,
                         polynomial : SUBSET Elements,
                         digest_g1 : Fr, digest_g2 : Fr]]
    /\ chain \in [Accs -> Fr]

(***************************************************************************)
(* Properties                                                              *)
(***************************************************************************)

\* P_S(z) = product over x in S of (z - x), computed over the integers
RECURSIVE IntCharPoly(_, _)
IntCharPoly(S, z) ==
    IF S = {} THEN 1
    ELSE LET x == CHOOSE y \in S : TRUE
         IN  (z - x) * IntCharPoly(S \ {x}, z)

\* the setup invariant the specification assumes: s is neither 0 nor (the
\* lift of) an element that may be committed
SecretAvoidsElements ==
    /\ setup.secret_s # 0
    /\ \A x \in Elements : FrOfInt(x) # setup.secret_s

\* z^n over the integers, with z^0 = 1
RECURSIVE IntPow(_, _)
IntPow(z, n) == IF n = 0 THEN 1 ELSE z * IntPow(z, n - 1)

\* P_S(s) in Fr
CharPolyAtS(S) == IntCharPoly(S, setup.secret_s) % FrModulus

\* the digest an accumulator maintains in its chosen group
ChosenDigest(a) ==
    IF a.group_type = "G1_TYPE" THEN a.digest_g1 ELSE a.digest_g2

\* C1: in every reachable state the digest an accumulator maintains in its
\* chosen group is g^{P_S(s)} for its current element set S (g for S = {})
C1_DigestCorrect ==
    \A a \in Accs :
        /\ ChosenDigest(acc[a]) = CharPolyAtS(acc[a].elements)
        /\ acc[a].elements = {} => ChosenDigest(acc[a]) = 1

C1_Witness ==
    /\ last.kind = "delete"
    /\ last.uproof.is_valid
    /\ Cardinality(acc[1].elements) >= 2
    /\ ChosenDigest(acc[1]) # 1

\* C2: membership completeness.  For a G1 accumulator and every x in its
\* set, generateMembershipProof(x) returns is_member = true and the proof
\* verifies against the accumulator's own digest.
C2_MembershipComplete ==
    \A a \in Accs : acc[a].group_type = "G1_TYPE" =>
        \A x \in acc[a].elements, junk \in Fr :
            LET proof == generateMembershipProof(acc[a], x, setup, junk)
            IN  /\ proof.is_member
                /\ verifyMembershipProof(getDigest(acc[a]), x, proof, setup)

C2_Witness ==
    /\ last.kind = "verify_member"
    /\ acc[last.acc].group_type = "G1_TYPE"
    /\ last.element \in acc[last.acc].elements
    /\ Cardinality(acc[last.acc].elements) >= 2
    /\ last.mproof = generateMembershipProof(acc[last.acc], last.element,
                                             setup, G2Zero)
    /\ last.result

\* C3 as stated: for x not in S no proof with is_member = true verifies,
\* whatever witness it carries (under the setup invariant s # 0, s # x).
C3_NoProofVerifies ==
    (/\ SecretAvoidsElements
     /\ last.kind = "verify_member"
     /\ last.element \notin acc[last.acc].elements
     /\ last.mproof.is_member)
    => ~last.result

\* C3 amended: for a G1 accumulator and x not in S, a proof with
\* is_member = true verifies exactly when its witness is the one element
\* g2^{P_S(s)/(s-x)} of G2; when s = x in Fr no witness verifies.
C3_OnlyQuotientWitnessVerifies ==
    \A a \in Accs : acc[a].group_type = "G1_TYPE" =>
        \A x \in Elements \ acc[a].elements, w \in Fr :
            verifyMembershipProof(getDigest(acc[a]), x,
                                  MembershipProof(w, TRUE), setup)
            <=> /\ FrOfInt(x) # setup.secret_s
                /\ w = FrMul(CharPolyAtS(acc[a].elements),
                             FrInv(FrSub(setup.secret_s, FrOfInt(x))))

C3_Witness ==
    /\ last.kind = "verify_member"
    /\ acc[last.acc].group_type = "G1_TYPE"
    /\ acc[last.acc].elements # {}
    /\ last.element \notin acc[last.acc].elements
    /\ last.mproof.is_member
    /\ ~last.result

\* what the witness fields a proof of (acc1, acc2) leaves unset can hold:
\* any group element when the proof is returned invalid, nothing to choose
\* when both fields are set
UnsetWitness(acc1, acc2) ==
    IF generateIntersectionProof(acc1, acc2, setup, G1Zero).is_valid
    THEN {G1Zero} ELSE Fr

\* C4: intersection correctness.  For two G1 accumulators in any reachable
\* states, generateIntersectionProof returns a valid proof whose D_I is
\* g1^{P_{A \cap B}(s)} and which verifyIntersectionProof accepts.
C4_IntersectionCorrect ==
    \A a \in Accs, b \in Accs :
        (acc[a].group_type = "G1_TYPE" /\ acc[b].group_type = "G1_TYPE") =>
            \A junk \in UnsetWitness(acc[a], acc[b]) :
                LET proof == generateIntersectionProof(acc[a], acc[b],
                                                       setup, junk)
                IN  /\ proof.is_valid
                    /\ proof.intersection_digest_g1
                         = CharPolyAtS(acc[a].elements \cap acc[b].elements)
                    /\ verifyIntersectionProof(getDigest(acc[a]),
                                               getDigest(acc[b]), proof, setup)

C4_Witness ==
    /\ last.kind = "verify_intersection"
    /\ last.tamper = acc[last.acc].elements \cap acc[last.other].elements
    /\ last.tamper # {}
    /\ acc[last.acc].elements \ last.tamper # {}
    /\ acc[last.other].elements \ last.tamper # {}
    /\ last.iproof.is_valid
    /\ last.result

\* C5 as stated: replacing D_I of a verifying proof by g1^{P_{I'}(s)} for
\* any set I' other than A \cap B makes verifyIntersectionProof return false
\* (under the setup invariant s # 0, s # x).
C5_AnyOtherSetRejected ==
    (/\ SecretAvoidsElements
     /\ last.kind = "verify_intersection"
     /\ last.tamper # acc[last.acc].elements \cap acc[last.other].elements)
    => ~last.result

\* C5 amended: replacing D_I of a verifying proof by g1^{P_{I'}(s)} makes
\* verifyIntersectionProof return false whenever that is a different group
\* element, i.e. whenever P_{I'}(s) # P_{A \cap B}(s) in Fr.
C5_DifferentDigestRejected ==
    \A a \in Accs, b \in Accs :
        LET proof == generateIntersectionProof(acc[a], acc[b], setup, G1Zero)
            I     == acc[a].elements \cap acc[b].elements
        IN  verifyIntersectionProof(getDigest(acc[a]), getDigest(acc[b]),
                                    proof, setup)
            => \A I2 \in SUBSET Elements :
                   CharPolyAtS(I2) # CharPolyAtS(I)
                   => ~verifyIntersectionProof(getDigest(acc[a]),
                          getDigest(acc[b]), TamperDI(proof, I2), setup)

C5_Witness ==
    /\ last.kind = "verify_intersection"
    /\ last.tamper # acc[last.acc].elements \cap acc[last.other].elements
    /\ CharPolyAtS(last.tamper)
         # CharPolyAtS(acc[last.acc].elements \cap acc[last.other].elements)
    /\ acc[last.acc].elements \cap acc[last.other].elements # {}
    /\ ~last.result

\* C6 as stated: every UpdateProof that add or delete returns with
\* valid = true is accepted by verifyUpdateProof (here already for a G1
\* accumulator under the setup invariant s # 0, s # x).
C6_ValidProofsVerify ==
    (/\ SecretAvoidsElements
     /\ acc[last.acc].group_type = "G1_TYPE"
     /\ last.kind = "verify_update"
     /\ last.uproof.is_valid)
    => last.result

\* C7: update chaining.  The D_old of each proof an accumulator returns is
\* the D_new of the proof it returned before (the digest at construction
\* for the first one), and its D_new is the accumulator's digest after the
\* call.
C7_UpdateChaining ==
    [][ last'.kind \in {"add", "delete"} =>
          /\ last'.uproof.old_digest = chain[last'.acc]
          /\ last'.uproof.old_digest = getDigest(acc[last'.acc])
          /\ last'.uproof.new_digest = getDigest(acc'[last'.acc])
          /\ chain'[last'.acc] = last'.uproof.new_digest ]_vars

C7_Witness ==
    /\ last.kind = "delete"
    /\ last.uproof.is_valid
    /\ last.uproof.old_digest # last.uproof.new_digest
    /\ acc[last.acc].elements # {}
    /\ chain[last.acc] = last.uproof.new_digest

\* C8: delete(x) with x not in the set returns a DELETE proof with
\* valid = false and D_new = D_old, verifyUpdateProof rejects it, and the
\* accumulator is exactly as before the call.
C8_DeleteAbsent ==
    [][ (last'.kind = "delete" /\ last'.element \notin acc[last'.acc].elements)
        => /\ last'.uproof.op_type = "DELETE"
           /\ ~last'.uproof.is_valid
           /\ last'.uproof.new_digest = last'.uproof.old_digest
           /\ ~verifyUpdateProof(last'.uproof, setup)
           /\ acc' = acc ]_vars

C8_Witness ==
    /\ last.kind = "verify_update"
    /\ last.uproof.op_type = "DELETE"
    /\ ~last.uproof.is_valid
    /\ acc[last.acc].elements # {}
    /\ ~last.result

\* C9: add(x) with x already in the set leaves the element set and the
\* digest unchanged and returns an ADD proof with valid = true and
\* D_old = D_new = the digest digest() returns.
C9_AddPresentIsNoOp ==
    [][ (last'.kind = "add" /\ last'.element \in acc[last'.acc].elements)
        => /\ acc' = acc
           /\ last'.uproof.op_type = "ADD"
           /\ last'.uproof.is_valid
           /\ last'.uproof.old_digest = getDigest(acc[last'.acc])
           /\ last'.uproof.new_digest = getDigest(acc'[last'.acc])
           /\ last'.uproof.old_digest = last'.uproof.new_digest ]_vars

\* an add that returned equal digests although s - x # 1 and D # identity
C9_Witness ==
    /\ last.kind = "add"
    /\ last.uproof.is_valid
    /\ last.uproof.old_digest = last.uproof.new_digest
    /\ last.uproof.old_digest # G1Zero
    /\ FrSub(setup.secret_s, FrOfInt(last.element)) # 1
    /\ Cardinality(acc[last.acc].elements) >= 2

\* C10: for every x not in the set, generateMembershipProof(x) returns
\* is_member = false and verifyMembershipProof rejects that proof against
\* the accumulator's digest, whatever the uninitialised witness holds.
C10_NonMemberProofRejected ==
    \A a \in Accs : \A x \in Elements \ acc[a].elements, junk \in Fr :
        LET proof == generateMembershipProof(acc[a], x, setup, junk)
        IN  /\ ~proof.is_member
            /\ ~verifyMembershipProof(getDigest(acc[a]), x, proof, setup)

C10_Witness ==
    /\ last.kind = "verify_member"
    /\ acc[last.acc].elements # {}
    /\ last.element \notin acc[last.acc].elements
    /\ ~last.mproof.is_member
    /\ last.mproof.witness_g2
         = FrMul(getDigest(acc[last.acc]),
                 FrInv(FrSub(setup.secret_s, FrOfInt(last.element))))
    /\ getDigest(acc[last.acc]) # G1Zero
    /\ ~last.result


\* C11: commutativity.  For two G1 accumulators A and B the proof of (A, B)
\* verifies against (D_A, D_B), the proof of (B, A) verifies against
\* (D_B, D_A), and both carry the same D_I.
C11_Commutative ==
    \A a \in Accs, b \in Accs :
        (acc[a].group_type = "G1_TYPE" /\ acc[b].group_type = "G1_TYPE") =>
            LET pAB == generateIntersectionProof(acc[a], acc[b], setup, G1Zero)
                pBA == generateIntersectionProof(acc[b], acc[a], setup, G1Zero)
            IN  /\ verifyIntersectionProof(getDigest(acc[a]),
                                           getDigest(acc[b]), pAB, setup)
                /\ verifyIntersectionProof(getDigest(acc[b]),
                                           getDigest(acc[a]), pBA, setup)
                /\ pAB.intersection_digest_g1 = pBA.intersection_digest_g1

\* the proof of (acc 2, acc 1) was verified, the two sets differing on both
\* sides, so that the proof of (acc 1, acc 2) has other witnesses
C11_Witness ==
    /\ last.kind = "verify_intersection"
    /\ last.acc = 2 /\ last.other = 1
    /\ last.tamper = acc[1].elements \cap acc[2].elements
    /\ acc[1].elements \ acc[2].elements # {}
    /\ acc[2].elements \ acc[1].elements # {}
    /\ last.iproof.witness_QA_g2 # last.iproof.witness_QB_g2
    /\ last.iproof.intersection_digest_g1
         = generateIntersectionProof(acc[1], acc[2], setup,
                                     G1Zero).intersection_digest_g1
    /\ last.result

\* C12: for two (G1) accumulators with disjoint sets the proof's D_I is the
\* empty-set digest g1 and verifyIntersectionProof accepts it, each of the
\* three pairing checks holding.
C12_DisjointSets ==
    \A a \in Accs, b \in Accs :
        (/\ acc[a].group_type = "G1_TYPE" /\ acc[b].group_type = "G1_TYPE"
         /\ acc[a].elements \cap acc[b].elements = {}) =>
            \A junk \in UnsetWitness(acc[a], acc[b]) :
                LET proof == generateIntersectionProof(acc[a], acc[b],
                                                       setup, junk)
                IN  /\ proof.intersection_digest_g1 = setup.g1_generator
                    /\ pairing(getDigest(acc[a]), setup.g2_generator)
                         = pairing(proof.intersection_digest_g1,
                                   proof.witness_QA_g2)
                    /\ pairing(getDigest(acc[b]), setup.g2_generator)
                         = pairing(proof.intersection_digest_g1,
                                   proof.witness_QB_g2)
                    /\ GTMul(pairing(proof.witness_a_g1, proof.witness_QA_g2),
                             pairing(proof.witness_b_g1, proof.witness_QB_g2))
                         = pairing(setup.g1_generator, setup.g2_generator)
                    /\ verifyIntersectionProof(getDigest(acc[a]),
                           getDigest(acc[b]), proof, setup)

C12_Witness ==
    /\ last.kind = "verify_intersection"
    /\ last.tamper = {}
    /\ acc[last.acc].elements \cap acc[last.other].elements = {}
    /\ acc[last.acc].elements # {}
    /\ acc[last.other].elements # {}
    /\ last.iproof.intersection_digest_g1 = setup.g1_generator
    /\ last.result

\* C13 as stated: for either group choice, after an add or delete the value
\* digest() returns is the maintained digest g^{P_S(s)} of the current set,
\* and the returned UpdateProof carries the maintained digest from before
\* the call as D_old and the one from after the call as D_new.
C13_DigestAccessorIsMaintainedDigest ==
    [][ (SecretAvoidsElements /\ last'.kind \in {"add", "delete"}) =>
          /\ getDigest(acc'[last'.acc]) = ChosenDigest(acc'[last'.acc])
          /\ getDigest(acc'[last'.acc])
               = G1Mul(1, IntCharPoly(acc'[last'.acc].elements,
                                      setup.secret_s) % FrModulus)
          /\ last'.uproof.old_digest = ChosenDigest(acc[last'.acc])
          /\ last'.uproof.new_digest = ChosenDigest(acc'[last'.acc]) ]_vars

\* C14 as stated: add(x) of a new element when the set already holds d
\* elements (d the setup's degree bound) returns a proof with valid = false
\* and leaves the element set and the digest unchanged (here under the
\* setup invariant s # 0, s # x).
C14_AddBeyondDegreeBoundRejected ==
    [][ (/\ SecretAvoidsElements
         /\ last'.kind = "add"
         /\ last'.element \notin acc[last'.acc].elements
         /\ Cardinality(acc[last'.acc].elements) = setup.max_degree)
        => /\ ~last'.uproof.is_valid
           /\ acc'[last'.acc].elements = acc[last'.acc].elements
           /\ ChosenDigest(acc'[last'.acc]) = ChosenDigest(acc[last'.acc])
      ]_vars

\* C15: after generatePowers the G1 and G2 power vectors have length d + 2,
\* entry i is g1^{s^i} resp. g2^{s^i} for every i in 0..d+1 (entry 0 the
\* generator), and no accumulator operation changes the setup.
C15_PowersOfSecret ==
    /\ [](/\ Len(setup.g1_s_powers) = setup.max_degree + 2
          /\ Len(setup.g2_s_powers) = setup.max_degree + 2
          /\ setup.g1_s_powers[1] = setup.g1_generator
          /\ setup.g2_s_powers[1] = setup.g2_generator
          /\ \A i \in 0..(setup.max_degree + 1) :
                /\ setup.g1_s_powers[i + 1]
                     = (setup.g1_generator * IntPow(setup.secret_s, i)) % FrModulus
                /\ setup.g2_s_powers[i + 1]
                     = (setup.g2_generator * IntPow(setup.secret_s, i)) % FrModulus)
    /\ [][setup' = setup]_vars

\* the powers are not all alike and both accumulators have been changed
C15_Witness ==
    /\ last.kind = "delete_discard"
    /\ acc[1].elements # {} /\ acc[2].elements # {}
    /\ setup.g2_s_powers[setup.max_degree + 2] \notin {0, 1}
    /\ setup.g2_s_powers[setup.max_degree + 2] # setup.g2_s_powers[2]

\* C16: a request for g2^{s^i} returns the stored power for every i in
\* 0..d+1 and throws, returning no value, for every i > d+1.
C16_PowerAccessBounds ==
    \A i \in Indices :
        LET r == getG2_s_pow(setup, i)
        IN  /\ (i >= 0 /\ i <= setup.max_degree + 1) =>
                  /\ ~r.thrown
                  /\ r.value = (setup.g2_generator * IntPow(setup.secret_s, i))
                                 % FrModulus
            /\ i > setup.max_degree + 1 => r.thrown

C16_Witness ==
    /\ last.kind = "get_g2_s_pow"
    /\ last.element > setup.max_degree + 1
    /\ ~last.result
    /\ setup.secret_s # 0

\* C17: an add or delete on one accumulator changes neither the element set
\* nor the digest of any other accumulator sharing the setup, and never
\* changes the setup.
C17_OtherAccumulatorsUntouched ==
    [][ last'.kind \in {"add_discard", "delete_discard"} =>
          /\ \A b \in Accs \ {last'.acc} :
                /\ acc'[b].elements = acc[b].elements
                /\ acc'[b].digest_g1 = acc[b].digest_g1
                /\ acc'[b].digest_g2 = acc[b].digest_g2
          /\ setup' = setup ]_vars

\* an add changed accumulator 1 while accumulator 2 held another set
C17_Witness ==
    /\ last.kind = "add_discard"
    /\ last.acc = 1
    /\ acc[1].elements # {}
    /\ acc[2].elements # {}
    /\ acc[2].elements \ acc[1].elements # {}
    /\ acc[1].elements \ acc[2].elements # {}

\* C18: generateMembershipProof, generateIntersectionProof and the three
\* verifiers leave every accumulator and the setup unchanged, and the
\* answer of each verifier is the function of its arguments (digests,
\* element, proof, setup), whatever state the accumulators are in.
C18_ProofOperationsReadOnly ==
    [][ /\ last'.kind \in {"gen_member", "verify_member", "verify_update",
                           "gen_intersection", "verify_intersection"}
           => (acc' = acc /\ setup' = setup)
        /\ last'.kind = "verify_member"
           => last'.result
                = verifyMembershipProof(getDigest(acc[last'.acc]),
                      last'.element, last'.mproof, setup)
        /\ last'.kind = "verify_update"
           => /\ last'.uproof = last.uproof
              /\ last'.result = verifyUpdateProof(last.uproof, setup)
        /\ last'.kind = "verify_intersection"
           => last'.result
                = verifyIntersectionProof(getDigest(acc[last'.acc]),
                      getDigest(acc[last'.other]), last'.iproof, setup)
      ]_vars

\* an intersection proof was generated and verified after adds and deletes
C18_Witness ==
    /\ last.kind = "verify_intersection"
    /\ last.acc = 1
    /\ Cardinality(acc[1].elements) >= 2
    /\ chain[1] # getDigest(NewAccumulator(setup, acc[1].group_type))

\* coefficient i of a coefficient vector, 0 beyond its end
CoeffOf(coeffs, i) == IF i < Len(coeffs) THEN coeffs[i + 1] ELSE 0

\* the degree of the polynomial a coefficient vector denotes modulo m, with
\* -1 for the zero polynomial
DegreeMod(coeffs, m) ==
    LET nz == { i \in 0..(Len(coeffs) - 1) : coeffs[i + 1] % m # 0 }
    IN  IF nz = {} THEN 0 - 1 ELSE CHOOSE i \in nz : \A j \in nz : j <= i

\* coefficient k of the product of two coefficient vectors, over the integers
RECURSIVE ProductCoeff(_, _, _, _)
ProductCoeff(f, g, k, i) ==
    IF i > k THEN 0
    ELSE CoeffOf(f, i) * CoeffOf(g, k - i) + ProductCoeff(f, g, k, i + 1)

\* C19 as stated: divide returns (quot, rem) with p = quot*q + rem and
\* deg rem < deg q for every p and every nonzero q over the same prime
\* modulus, and fails with an error exactly for the zero divisor.
C19_DivisionWithRemainder ==
    /\ poly.pc = "divide_thrown" => DegreeMod(poly.divisor.coefficients,
                                             poly.divisor.modulus) = 0 - 1
    /\ poly.pc \in {"divide_loop", "divide_returned"}
         => DegreeMod(poly.divisor.coefficients, poly.divisor.modulus) >= 0
    /\ poly.pc = "divide_returned" =>
         LET m    == poly.self.modulus
             p    == poly.self.coefficients
             q    == poly.divisor.coefficients
             quot == poly.result[1].coefficients
             rem  == poly.result[2].coefficients
         IN  /\ \A k \in 0..(Len(p) + Len(q) + Len(quot)) :
                   (CoeffOf(p, k) - ProductCoeff(quot, q, k, 0)
                      - CoeffOf(rem, k)) % m = 0
             /\ DegreeMod(rem, m) < DegreeMod(q, m)

\* the set of the entries of a vector
Range(s) == { s[i] : i \in 1..Len(s) }

\* C20 as stated: each root-based constructor returns the monic polynomial
\* of degree |R| whose value at any a is the product of (a - r) over R, and
\* the constant 1 for the empty root set: PolynomialUtils::fromRoots,
\* CharacteristicPolynomial (through evaluate) and Polynomial::from_roots.
C20_FromRootsIsCharacteristicPolynomial ==
    /\ \A R \in SUBSET Elements :
          LET f == fromRoots(R)
          IN  /\ Len(f) = Cardinality(R) + 1
              /\ f[Len(f)] = 1
              /\ R = {} => f = << 1 >>
              /\ \A a \in Fr :
                    /\ PolyEvaluate(f, a) = IntCharPoly(R, a) % FrModulus
                    /\ evaluate(R, a) = IntCharPoly(R, a) % FrModulus
    /\ poly.pc = "from_roots" =>
          LET f == poly.result[1]
              m == f.modulus
              R == Range(poly.roots)
          IN  /\ Len(f.coefficients) = Len(poly.roots) + 1
              /\ (f.coefficients[Len(f.coefficients)] - 1) % m = 0
              /\ poly.roots = << >> => f.coefficients = << 1 >>
              /\ \A a \in 0..(m - 1) :
                    (Polynomial_evaluate(f, a) - IntCharPoly(R, a)) % m = 0


\* C21 as stated: an addition, subtraction or multiplication of two
\* polynomials with different moduli never throws: the call returns a value
\* (one that reports the failure) to its caller.
C21_MismatchedModuliNeverThrow ==
    (/\ poly.pc \in {"plus_thrown", "plus_returned", "minus_thrown",
                     "minus_returned", "times_thrown", "times_returned"}
     /\ poly.self.modulus # poly.divisor.modulus)
        => /\ poly.pc \in {"plus_returned", "minus_returned", "times_returned"}
           /\ poly.result # << >>

\* C22: verifyIntersectionProof(D_A, D_B, proof, setup) returns true if and
\* only if proof.valid is true and all three equations hold:
\* e(D_A, g2) = e(D_I, W_QA), e(D_B, g2) = e(D_I, W_QB) and
\* e(W_a, W_QA) * e(W_b, W_QB) = e(g1, g2).
C22_AcceptIffAllThree ==
    last.kind = "verify_any_intersection" =>
        LET proof == last.iproof
            g1    == setup.g1_generator
            g2    == setup.g2_generator
        IN  last.result
              <=> /\ proof.is_valid
                  /\ pairing(last.digest_A, g2)
                       = pairing(proof.intersection_digest_g1,
                                 proof.witness_QA_g2)
                  /\ pairing(last.digest_B, g2)
                       = pairing(proof.intersection_digest_g1,
                                 proof.witness_QB_g2)
                  /\ GTMul(pairing(proof.witness_a_g1, proof.witness_QA_g2),
                           pairing(proof.witness_b_g1, proof.witness_QB_g2))
                       = pairing(g1, g2)

\* a proof marked valid that satisfies both subset equations and fails the
\* third alone has been rejected
C22_Witness ==
    /\ last.kind = "verify_any_intersection"
    /\ last.iproof.is_valid
    /\ pairing(last.digest_A, setup.g2_generator)
         = pairing(last.iproof.intersection_digest_g1,
                   last.iproof.witness_QA_g2)
    /\ pairing(last.digest_B, setup.g2_generator)
         = pairing(last.iproof.intersection_digest_g1,
                   last.iproof.witness_QB_g2)
    /\ GTMul(pairing(last.iproof.witness_a_g1, last.iproof.witness_QA_g2),
             pairing(last.iproof.witness_b_g1, last.iproof.witness_QB_g2))
         # pairing(setup.g1_generator, setup.g2_generator)
    /\ last.digest_A # G1Zero
    /\ ~last.result

\* C23: verifyUpdateProof(proof, setup) returns true exactly when proof.valid
\* is true and: for ADD, D_new = D_old^{s-x}; for DELETE, the attached
\* membership proof verifies for x against D_old and D_old = D_new^{s-x}.
\* A DELETE proof whose digests satisfy the equation and whose membership
\* proof does not verify against D_old is rejected.
C23_UpdateProofAcceptedExactlyWhen ==
    last.kind = "verify_any_update" =>
        LET proof == last.uproof
            sx    == FrSub(setup.secret_s, FrOfInt(proof.element))
        IN  last.result
              <=> /\ proof.is_valid
                  /\ proof.op_type = "ADD"
                       => proof.new_digest = G1Mul(proof.old_digest, sx)
                  /\ proof.op_type = "DELETE"
                       => /\ verifyMembershipProof(proof.old_digest,
                                 proof.element, proof.membership_proof, setup)
                          /\ proof.old_digest = G1Mul(proof.new_digest, sx)

\* a DELETE proof marked valid, with digests that satisfy the equation and a
\* membership proof that claims membership and does not verify, was rejected
C23_Witness ==
    /\ last.kind = "verify_any_update"
    /\ last.uproof.is_valid
    /\ last.uproof.op_type = "DELETE"
    /\ last.uproof.old_digest # G1Zero
    /\ last.uproof.old_digest
         = G1Mul(last.uproof.new_digest,
                 FrSub(setup.secret_s, FrOfInt(last.uproof.element)))
    /\ last.uproof.membership_proof.is_member
    /\ ~verifyMembershipProof(last.uproof.old_digest, last.uproof.element,
                              last.uproof.membership_proof, setup)
    /\ ~last.result

\* C24 as stated: delete(x) with x in the set S removes exactly x, sets the
\* digest to g^{P_{S \ {x}}(s)} and returns a DELETE proof with valid = true
\* whose membership proof, generated before the removal, has is_member =
\* true and verifies for x against the proof's D_old (here under the setup
\* invariant s # 0, s # x).
C24_DeleteOfMember ==
    [][ (/\ SecretAvoidsElements
         /\ last'.kind = "delete"
         /\ last'.element \in acc[last'.acc].elements)
        => LET a == last'.acc
               x == last'.element
               S == acc[a].elements
               proof == last'.uproof
           IN  /\ acc'[a].elements = S \ {x}
               /\ ChosenDigest(acc'[a])
                    = IntCharPoly(S \ {x}, setup.secret_s) % FrModulus
               /\ proof.op_type = "DELETE"
               /\ proof.element = x
               /\ proof.is_valid
               /\ proof.membership_proof.is_member
               /\ verifyMembershipProof(proof.old_digest, x,
                                        proof.membership_proof, setup) ]_vars

\* C25 as stated: divide terminates for every dividend and every nonzero
\* divisor, nonzero constant divisors and dividends that reduce to the zero
\* polynomial included: a call that has entered the loop returns.
C25_DivideTerminates ==
    (poly.pc = "divide_loop") ~> (poly.pc = "divide_returned")

\* C26: each verifier rejects on the proof's flag alone.  verifyMembershipProof
\* returns false whenever is_member is false, and verifyUpdateProof and
\* verifyIntersectionProof return false whenever valid is false, whatever
\* group elements the proof carries; so every default-constructed proof,
\* whose group elements are unset, is rejected.
C26_RejectedOnFlagAlone ==
    /\ (last.kind = "verify_any_member" /\ ~last.mproof.is_member)
         => ~last.result
    /\ (last.kind = "verify_any_update" /\ ~last.uproof.is_valid)
         => ~last.result
    /\ (last.kind = "verify_any_intersection" /\ ~last.iproof.is_valid)
         => ~last.result

\* an ADD proof with valid = false was rejected although its digests satisfy
\* the pairing equation
C26_Witness ==
    /\ last.kind = "verify_any_update"
    /\ ~last.uproof.is_valid
    /\ last.uproof.op_type = "ADD"
    /\ last.uproof.old_digest # G1Zero
    /\ last.uproof.new_digest
         = G1Mul(last.uproof.old_digest,
                 FrSub(setup.secret_s, FrOfInt(last.uproof.element)))
    /\ ~last.result

\* C27: history independence.  Two accumulators over the same setup and
\* group whose add/delete histories end in the same element set hold equal
\* digests, whatever the operations were; an accumulator whose history ends
\* in the empty set (an add followed by the delete of the same element, for
\* one) holds the digest it was constructed with.
C27_HistoryIndependence ==
    /\ \A a \in Accs, b \in Accs :
          (/\ acc[a].group_type = acc[b].group_type
           /\ acc[a].elements = acc[b].elements)
          => /\ acc[a].digest_g1 = acc[b].digest_g1
             /\ acc[a].digest_g2 = acc[b].digest_g2
    /\ \A a \in Accs :
          acc[a].elements = {} =>
             LET fresh == NewAccumulator(setup, acc[a].group_type)
             IN  /\ acc[a].digest_g1 = fresh.digest_g1
                 /\ acc[a].digest_g2 = fresh.digest_g2

\* a delete brought accumulator 1 to the two-element set accumulator 2 holds
C27_Witness ==
    /\ last.kind = "delete_discard"
    /\ last.acc = 1
    /\ acc[1].group_type = acc[2].group_type
    /\ acc[1].elements = acc[2].elements
    /\ Cardinality(acc[1].elements) = 2
    /\ ChosenDigest(acc[1]) \notin {0, 1}

\* C28: in every reachable state the accumulator's own element set equals
\* the root set its characteristic polynomial holds, also after an add that
\* changed nothing and after a rejected delete.
C28_ElementsArePolynomialRoots ==
    \A a \in Accs : acc[a].elements = acc[a].polynomial

\* a delete was rejected on an accumulator that holds two elements
C28_Witness ==
    /\ last.kind = "delete"
    /\ ~last.uproof.is_valid
    /\ last.element \notin acc[last.acc].elements
    /\ Cardinality(acc[last.acc].elements) = 2
    /\ acc[last.acc].polynomial = acc[last.acc].elements

\* C29 as stated: a membership proof is bound to its element.  In a
\* reachable accumulator state with P_S(s) # 0 and x in S, the proof that
\* generateMembershipProof(x) returns is rejected when it is presented
\* against the same digest for any other element y # x, in S or not (here
\* for a secret s # 0).
C29_ProofBoundToElement ==
    (/\ setup.secret_s # 0
     /\ last.kind = "verify_member"
     /\ CharPolyAtS(acc[last.acc].elements) # 0
     /\ \E x \in acc[last.acc].elements \ {last.element} :
           last.mproof = generateMembershipProof(acc[last.acc], x, setup,
                                                 G2Zero))
    => ~last.result

\* C30: a membership proof is bound to the state it was generated in.  The
\* proof generated for x in S no longer verifies against the accumulator's
\* digest after a successful add or delete of another element y, given
\* P_S(s) # 0 and s - y # 1: a witness kept across an update is rejected.
C30_ProofBoundToState ==
    [][ (/\ last'.kind \in {"add", "delete"}
         /\ acc'[last'.acc].elements # acc[last'.acc].elements
         /\ CharPolyAtS(acc[last'.acc].elements) # 0
         /\ FrSub(setup.secret_s, FrOfInt(last'.element)) # 1)
        => \A x \in acc[last'.acc].elements \ {last'.element} :
              LET proof == generateMembershipProof(acc[last'.acc], x, setup,
                                                   G2Zero)
              IN  /\ proof.is_member
                  /\ ~verifyMembershipProof(getDigest(acc'[last'.acc]), x,
                                            proof, setup) ]_vars

\* a successful delete on a G1 accumulator left two elements whose earlier
\* witnesses belong to the digest before the delete
C30_Witness ==
    /\ last.kind = "delete"
    /\ last.uproof.is_valid
    /\ acc[last.acc].group_type = "G1_TYPE"
    /\ Cardinality(acc[last.acc].elements) = 2
    /\ last.uproof.old_digest # G1Zero
    /\ last.uproof.old_digest # last.uproof.new_digest
    /\ FrSub(setup.secret_s, FrOfInt(last.element)) # 1
====
